---- MODULE Spec2Model ----
(***************************************************************************)
(* Model of the Reddit-Jams recommendation pipeline:                       *)
(*   - reddit_api.search_reddit_for_recommendations  (signal mining)       *)
(*   - reddit_api.get_reddit_recommendations         (seed selection and   *)
(*     aggregation of the per-query mining results)                        *)
(*   - endpoint.py / fastapi_endpoint.py /api/recommendations handlers     *)
(*     around main.get_recommendations                                     *)
(* Strings are sequences of one-character strings, so that str.lower() and *)
(* the substring test "keyword in text" are computed as Python computes    *)
(* them.                                                                   *)
(***************************************************************************)
EXTENDS Integers, Sequences, FiniteSets, TLC

VARIABLES
    \* ---- one call of search_reddit_for_recommendations ----
    m_pc,            \* "ready" | "done"
    m_response,      \* what the discussion service yielded for the query
    m_max_posts,     \* max_posts argument
    m_max_comments,  \* max_comments argument
    m_result,        \* outcome of the call
    \* ---- one call of get_reddit_recommendations ----
    g_pc,            \* "start" | "tracks" | "artists" | "done" | "raised"
    tracks_data,
    num_top_tracks,
    num_top_artists,
    top_tracks,
    all_artists,
    all_reddit_data,
    g_idx,           \* loop position inside the current for loop
    calls,           \* log of the search_reddit_for_recommendations calls
    \* ---- HTTP handlers ----
    server,          \* "flask" | "fastapi"
    h_pc,            \* per request: position in the handler
    payload,         \* per request: what the client sent as playlist_url
    sys_stdout,      \* the process-wide sys.stdout
    old_stdout,      \* per request: the handler's local old_stdout
    external,        \* per request: external-service calls made so far
    pipeline,        \* per request: outcome of get_recommendations
    result,          \* per request: the handler's local result, or the
                     \* exception on its way to the outer except
    http_response    \* per request: the HTTP response

mvars == <<m_pc, m_response, m_max_posts, m_max_comments, m_result>>
gvars == <<g_pc, tracks_data, num_top_tracks, num_top_artists, top_tracks,
           all_artists, all_reddit_data, g_idx, calls>>
hvars == <<server, h_pc, payload, sys_stdout, old_stdout, external,
           pipeline, result, http_response>>
vars == <<mvars, gvars, hvars>>

(***************************************************************************)
(* Bounds of the model.                                                    *)
(***************************************************************************)
MaxPosts == 2
MaxComments == 2
MaxTracks == 3
MaxTop == 2
NumRequests == 2

(***************************************************************************)
(* Strings.                                                                *)
(***************************************************************************)
UpperCase ==
    <<"A","B","C","D","E","F","G","H","I","J","K","L","M",
      "N","O","P","Q","R","S","T","U","V","W","X","Y","Z">>

LowerCase ==
    <<"a","b","c","d","e","f","g","h","i","j","k","l","m",
      "n","o","p","q","r","s","t","u","v","w","x","y","z">>

\* str.lower() on one character
LowerChar(c) ==
    IF \E i \in 1..26 : UpperCase[i] = c
    THEN LowerCase[CHOOSE i \in 1..26 : UpperCase[i] = c]
    ELSE c

\* str.lower()
Lower(s) == [i \in 1..Len(s) |-> LowerChar(s[i])]

\* the Python test  kw in s
Contains(s, kw) ==
    \E i \in 1..(Len(s) - Len(kw) + 1) : SubSeq(s, i, i + Len(kw) - 1) = kw

\* any(keyword in text for keyword in kws)
AnyKeyword(text, kws) == \E kw \in kws : Contains(text, kw)

\* the separator of the f-string of line 60
Space == <<" ">>

KwRecommend == <<"r","e","c","o","m","m","e","n","d">>
KwSimilar == <<"s","i","m","i","l","a","r">>
KwIfYouLike == <<"i","f"," ","y","o","u"," ","l","i","k","e">>
KwCheckOut == <<"c","h","e","c","k"," ","o","u","t">>
KwYouMightLike == <<"y","o","u"," ","m","i","g","h","t"," ","l","i","k","e">>
KwFansOf == <<"f","a","n","s"," ","o","f">>
KwTry == <<"t","r","y">>

\* keyword list of reddit_api.py line 62
PostKeywords ==
    {KwRecommend, KwSimilar, KwIfYouLike, KwCheckOut, KwYouMightLike, KwFansOf}

\* keyword list of reddit_api.py line 76
CommentKeywords ==
    {KwRecommend, KwSimilar, KwIfYouLike, KwCheckOut, KwYouMightLike, KwTry}

\* line 85 with "if you like" also counted as a stand-alone term
StrongKeywordsWithIfYouLike == {KwRecommend, KwSimilar, KwIfYouLike}

\* keyword list of reddit_api.py line 85
StrongKeywords == {KwRecommend, KwSimilar}

(***************************************************************************)
(* Texts the discussion service may return.                                *)
(***************************************************************************)
\* "Check out this band"
TitleCheckOut ==
    <<"C","h","e","c","k"," ","o","u","t"," ","t","h","i","s"," ",
      "b","a","n","d">>

\* "If you like X, you'll love Y"
TitleIfYouLike ==
    <<"I","f"," ","y","o","u"," ","l","i","k","e"," ","X",","," ",
      "y","o","u","'","l","l"," ","l","o","v","e"," ","Y">>

\* "RECOMMEND jazz"
TitleRecommend ==
    <<"R","E","C","O","M","M","E","N","D"," ","j","a","z","z">>

\* "Dissimilar bands"
TitleSimilar ==
    <<"D","i","s","s","i","m","i","l","a","r"," ","b","a","n","d","s">>

\* "For fans of Muse"
TitleFansOf ==
    <<"F","o","r"," ","f","a","n","s"," ","o","f"," ","M","u","s","e">>

\* "New album"
TitleNone == <<"N","e","w"," ","a","l","b","u","m">>

\* ""
BodyEmpty == <<>>

\* "Similar?"
BodySimilar == <<"S","i","m","i","l","a","r","?">>

\* "Try Muse"
CommentTry == <<"T","r","y"," ","M","u","s","e">>

\* "fans of Muse"
CommentFansOf == <<"f","a","n","s"," ","o","f"," ","M","u","s","e">>

\* "nice"
CommentNone == <<"n","i","c","e">>

\* "I Recommend it"
CommentRecommend ==
    <<"I"," ","R","e","c","o","m","m","e","n","d"," ","i","t">>

NoAuthor == "None"

RawComment(b, s, a) == [body |-> b, score |-> s, author |-> a]

CTry == RawComment(CommentTry, 3, "alice")
CFansOf == RawComment(CommentFansOf, 2, "bob")
CNone == RawComment(CommentNone, 1, "carol")
CRecommend == RawComment(CommentRecommend, 5, NoAuthor)

\* A post as the service returns it; comments is its flattened comment
\* list and comments_fail says whether reading post.comments /
\* replace_more raises for this post.
RawPost(id, t, b, cs, f) ==
    [title |-> t, selftext |-> b, score |-> Len(cs), permalink |-> <<"/", id>>,
     comments |-> cs, comments_fail |-> f]

PostPool ==
    {RawPost("a", TitleCheckOut, BodyEmpty, <<>>, FALSE),
     RawPost("b", TitleIfYouLike, BodyEmpty, <<>>, FALSE),
     RawPost("c", TitleRecommend, BodyEmpty, <<>>, FALSE),
     RawPost("d", TitleSimilar, BodyEmpty, <<>>, FALSE),
     RawPost("e", TitleFansOf, BodyEmpty, <<>>, FALSE),
     RawPost("f", TitleNone, BodyEmpty, <<>>, FALSE),
     RawPost("g", TitleCheckOut, BodyEmpty, <<CTry>>, FALSE),
     RawPost("h", TitleNone, BodyEmpty, <<CTry>>, FALSE),
     RawPost("i", TitleFansOf, BodyEmpty, <<CFansOf>>, FALSE),
     RawPost("j", TitleIfYouLike, BodyEmpty, <<CFansOf, CNone, CTry>>, FALSE),
     RawPost("k", TitleRecommend, BodyEmpty, <<CNone, CRecommend>>, FALSE),
     RawPost("l", TitleCheckOut, BodyEmpty, <<CTry>>, TRUE),
     RawPost("m", TitleRecommend, BodyEmpty, <<CTry>>, TRUE),
     RawPost("n", TitleCheckOut, BodySimilar, <<>>, FALSE),
     RawPost("o", TitleNone, BodySimilar, <<CNone>>, FALSE),
     RawPost("p", TitleRecommend, BodyEmpty, <<CTry, CFansOf, CRecommend>>, FALSE)}

(***************************************************************************)
(* search_reddit_for_recommendations                                       *)
(***************************************************************************)
\* list[:n] for n >= 0
Take(s, n) == SubSeq(s, 1, IF n < Len(s) THEN n ELSE Len(s))

\* line 60: text = f"{post.title} {post.selftext}".lower()
PostText(post) == Lower(post.title \o Space \o post.selftext)

\* line 62 testing the comment lexicon instead of the post lexicon
IsCandidateByCommentLexicon(post) ==
    AnyKeyword(PostText(post), CommentKeywords)

\* line 62: the post is a mining candidate
IsCandidate(post) == AnyKeyword(PostText(post), PostKeywords)

\* line 76: the comment carries recommendation intent
CommentQualifies(comment) == AnyKeyword(Lower(comment.body), CommentKeywords)

\* lines 77-81: the dictionary appended for a qualifying comment
CommentData(comment) ==
    [body |-> comment.body,
     score |-> comment.score,
     author |-> IF comment.author = NoAuthor
                THEN "[deleted]" ELSE comment.author]

RECURSIVE FilterComments(_)
\* lines 74-81: the loop over the examined comments
FilterComments(comments) ==
    IF comments = <<>> THEN <<>>
    ELSE (IF CommentQualifies(Head(comments))
          THEN <<CommentData(Head(comments))>> ELSE <<>>)
         \o FilterComments(Tail(comments))

\* lines 72-83 without the [:max_comments] slice of line 74
MinedCommentsUncapped(post, max_comments) ==
    IF post.comments_fail THEN <<>>
    ELSE FilterComments(post.comments)

\* lines 72-83: the comments of one candidate.  post.comments /
\* replace_more / list() run before the loop starts, so a failure of the
\* discussion service leaves post_data['comments'] as initialised.
MinedComments(post, max_comments) ==
    IF post.comments_fail THEN <<>>
    ELSE FilterComments(Take(post.comments, max_comments))

\* line 85 testing the whole post lexicon instead of the two strong terms
PromotedByAnyIntent(text, comments) ==
    comments # <<>> \/ AnyKeyword(text, PostKeywords)

\* line 85: the promotion test
Promoted(text, comments) ==
    comments # <<>> \/ AnyKeyword(text, StrongKeywords)

\* lines 63-69 with the comments filled in
PostData(post, comments) ==
    [title |-> post.title,
     body |-> post.selftext,
     score |-> post.score,
     url |-> <<"https://reddit.com">> \o post.permalink,
     comments |-> comments]

\* lines 58-86: the body of the for loop for one post: what is appended to
\* recommendations, and whether the post's comments were requested
ProcessPost(post, max_comments) ==
    IF IsCandidate(post)
    THEN LET comments == MinedComments(post, max_comments)
         IN  [appended |-> IF Promoted(PostText(post), comments)
                           THEN <<PostData(post, comments)>> ELSE <<>>,
              fetched |-> <<post.permalink>>]
    ELSE [appended |-> <<>>, fetched |-> <<>>]

\* ProcessPost tabulated over the posts and comment limits of the model
ProcessedPost ==
    [post \in PostPool, max_comments \in 0..MaxComments |->
        ProcessPost(post, max_comments)]

RECURSIVE MinePostsAbortOnCommentFailure(_, _)
\* the loop without the inner try: a failing comment fetch reaches the
\* outer except and ends the loop
MinePostsAbortOnCommentFailure(posts, max_comments) ==
    IF posts = <<>> THEN [appended |-> <<>>, fetched |-> <<>>]
    ELSE IF IsCandidate(Head(posts)) /\ Head(posts).comments_fail
    THEN [appended |-> <<>>, fetched |-> <<Head(posts).permalink>>]
    ELSE LET h == ProcessedPost[Head(posts), max_comments]
             t == MinePostsAbortOnCommentFailure(Tail(posts), max_comments)
         IN  [appended |-> h.appended \o t.appended,
              fetched |-> h.fetched \o t.fetched]

RECURSIVE MinePosts(_, _)
\* lines 58-86: the for loop over the posts the search yielded
MinePosts(posts, max_comments) ==
    IF posts = <<>> THEN [appended |-> <<>>, fetched |-> <<>>]
    ELSE LET h == ProcessedPost[Head(posts), max_comments]
             t == MinePosts(Tail(posts), max_comments)
         IN  [appended |-> h.appended \o t.appended,
              fetched |-> h.fetched \o t.fetched]

\* lines 88-91 with the list emptied when the search failed
SearchOutcomeDiscardingOnFailure(mined, search_failed) ==
    [recommendations |-> IF search_failed THEN <<>> ELSE mined.appended,
     fetched |-> mined.fetched,
     error_printed |-> search_failed,
     raised |-> FALSE]

\* lines 88-91: an exception of the search or of its lazy iteration is
\* caught, reported with print, and the list built so far is returned
SearchOutcome(mined, search_failed) ==
    [recommendations |-> mined.appended,
     fetched |-> mined.fetched,
     error_printed |-> search_failed,
     raised |-> FALSE]

\* lines 51-91.  response.posts are the posts the iteration yielded;
\* response.fails says whether the search, or the fetch of the next batch
\* of results after them, raised.
search_reddit_for_recommendations(response, max_comments) ==
    SearchOutcome(MinePosts(response.posts, max_comments), response.fails)

(***************************************************************************)
(* Specification of one mining call: the arguments and what the discussion *)
(* service yields are chosen when the call is made.                        *)
(***************************************************************************)
\* subreddit.search(query, limit=max_posts) yields at most max_posts posts
Responses(max_posts) ==
    UNION {[posts : [1..n -> PostPool], fails : BOOLEAN] : n \in 0..max_posts}

NoResponse == [posts |-> <<>>, fails |-> FALSE]
NoResult ==
    [recommendations |-> <<>>, fetched |-> <<>>,
     error_printed |-> FALSE, raised |-> FALSE]

GInit ==
    /\ g_pc = "start"
    /\ tracks_data = <<>>
    /\ num_top_tracks = 0
    /\ num_top_artists = 0
    /\ top_tracks = <<>>
    /\ all_artists = <<>>
    /\ all_reddit_data = <<>>
    /\ g_idx = 0
    /\ calls = <<>>

HInit ==
    /\ server = "flask"
    /\ h_pc = <<>>
    /\ payload = <<>>
    /\ sys_stdout = "console"
    /\ old_stdout = <<>>
    /\ external = <<>>
    /\ pipeline = <<>>
    /\ result = <<>>
    /\ http_response = <<>>

MInit ==
    /\ m_pc = "ready"
    /\ m_response = NoResponse
    /\ m_max_posts = 0
    /\ m_max_comments = 0
    /\ m_result = NoResult

\* one call search_reddit_for_recommendations(reddit, query, subreddit_name,
\* max_posts, max_comments)
Search(max_posts, max_comments, response) ==
    /\ m_pc = "ready"
    /\ m_pc' = "done"
    /\ m_max_posts' = max_posts
    /\ m_max_comments' = max_comments
    /\ m_response' = response
    /\ m_result' = search_reddit_for_recommendations(response, max_comments)
    /\ UNCHANGED <<gvars, hvars>>

MineInit == MInit /\ GInit /\ HInit

MineNext ==
    /\ m_pc = "ready"
    /\ \E max_posts \in 1..MaxPosts, max_comments \in 0..MaxComments :
          \E response \in Responses(max_posts) :
              Search(max_posts, max_comments, response)

SpecMine == MineInit /\ [][MineNext]_vars

(***************************************************************************)
(* get_reddit_recommendations                                              *)
(***************************************************************************)
\* (popularity, artists) of the tracks a playlist may hold
TrackKinds ==
    {<<80, <<"Muse">>>>, <<40, <<"Muse">>>>, <<40, <<"Blur", "Muse">>>>}

\* a track dictionary as the catalogue client delivers it; artist_names is
\* the display form of artists
TrackDict(i, popularity, artists) ==
    [name |-> ToString(i), popularity |-> popularity,
     artists |-> artists, artist_names |-> artists]

\* the playlists of n tracks
Playlists(n) ==
    {[i \in 1..n |-> TrackDict(i, f[i][1], f[i][2])] :
        f \in [1..n -> TrackKinds]}

\* insertion that puts x before the entries of equal popularity
InsertBeforeEqual(sorted, x) ==
    LET k == Cardinality({i \in 1..Len(sorted) :
                             sorted[i].popularity > x.popularity})
    IN  SubSeq(sorted, 1, k) \o <<x>> \o SubSeq(sorted, k + 1, Len(sorted))

\* one step of the stable descending sort: x goes after every entry whose
\* popularity is at least its own
InsertByPopularity(sorted, x) ==
    LET k == Cardinality({i \in 1..Len(sorted) :
                             sorted[i].popularity >= x.popularity})
    IN  SubSeq(sorted, 1, k) \o <<x>> \o SubSeq(sorted, k + 1, Len(sorted))

RECURSIVE SortedByPopularity(_)
\* line 117: sorted(tracks_data, key=lambda x: x['popularity'], reverse=True)
SortedByPopularity(tracks) ==
    IF tracks = <<>> THEN <<>>
    ELSE InsertByPopularity(SortedByPopularity(SubSeq(tracks, 1, Len(tracks) - 1)),
                            tracks[Len(tracks)])

\* line 117
TopTracks(tracks, n) == Take(SortedByPopularity(tracks), n)

RECURSIVE ArtistMentions(_)
\* line 118: [artist for track in tracks_data for artist in track['artists']]
ArtistMentions(tracks) ==
    IF tracks = <<>> THEN <<>>
    ELSE Head(tracks).artists \o ArtistMentions(Tail(tracks))

\* the elements of a list
Range(s) == {s[i] : i \in 1..Len(s)}

\* list(S) of a Python set: its iteration order is not defined, so every
\* ordering of the elements is a possible outcome
ListsOfSet(S) ==
    {o \in [1..Cardinality(S) -> S] : \A i, j \in 1..Cardinality(S) :
                                          i # j => o[i] # o[j]}

\* line 118 without set(): the mentions in playlist order
ArtistChoicesNoDedup(tracks, n) == {Take(ArtistMentions(tracks), n)}

\* line 118: the possible values of all_artists
ArtistChoices(tracks, n) ==
    {Take(o, n) : o \in ListsOfSet(Range(ArtistMentions(tracks)))}

\* the queries with the artist loop ahead of the track loop
QueryAtArtistsFirst(tracks, artists, k) ==
    IF k <= Len(artists)
    THEN <<artists[k], "recommend similar">>
    ELSE <<tracks[k - Len(artists)].name,
           tracks[k - Len(artists)].artist_names, "recommend">>

\* lines 126-141: the query of the k-th search: the track loop (line 128)
\* runs first, then the artist loop (line 140)
QueryAt(tracks, artists, k) ==
    IF k <= Len(tracks)
    THEN <<tracks[k].name, tracks[k].artist_names, "recommend">>
    ELSE <<artists[k - Len(tracks)], "recommend similar">>

\* extend that skips the posts already collected
ExtendWithoutDuplicates(data, results) ==
    data \o SelectSeq(results, LAMBDA r : \A i \in 1..Len(data) : data[i].url # r.url)

\* lines 131-132 and 143-144: if results: all_reddit_data.extend(results)
Extend(data, results) == IF results # <<>> THEN data \o results ELSE data

\* what the discussion service yields for the queries of one run
AggResponses ==
    {[posts |-> <<>>, fails |-> FALSE],
     [posts |-> <<RawPost("c", TitleRecommend, BodyEmpty, <<>>, FALSE),
                  RawPost("a", TitleCheckOut, BodyEmpty, <<>>, FALSE)>>,
      fails |-> TRUE],
     [posts |-> <<RawPost("g", TitleCheckOut, BodyEmpty, <<CTry>>, FALSE),
                  RawPost("c", TitleRecommend, BodyEmpty, <<>>, FALSE)>>,
      fails |-> FALSE]}

\* lines 129 and 141: the result of the call for each possible response
\* (max_comments_per_post is fixed to MaxComments in these runs)
MinedFor ==
    [response \in AggResponses |->
        search_reddit_for_recommendations(response, MaxComments)]

AggInit ==
    /\ g_pc = "start"
    /\ tracks_data \in UNION {Playlists(n) : n \in 0..MaxTracks}
    /\ num_top_tracks \in 0..MaxTop
    /\ num_top_artists \in 0..MaxTop
    /\ top_tracks = <<>>
    /\ all_artists = <<>>
    /\ all_reddit_data = <<>>
    /\ g_idx = 0
    /\ calls = <<>>
    /\ MInit /\ HInit

\* lines 114-118
SelectSeeds ==
    /\ g_pc = "start"
    /\ top_tracks' = TopTracks(tracks_data, num_top_tracks)
    /\ all_artists' \in ArtistChoices(tracks_data, num_top_artists)
    /\ all_reddit_data' = <<>>
    /\ g_idx' = 1
    /\ g_pc' = "searching"
    /\ UNCHANGED <<tracks_data, num_top_tracks, num_top_artists, calls,
                   mvars, hvars>>

\* lines 126-147: one iteration of the track loop or of the artist loop
SearchNext(response) ==
    /\ g_pc = "searching"
    /\ g_idx <= Len(top_tracks) + Len(all_artists)
    /\ LET query == QueryAt(top_tracks, all_artists, g_idx)
           outcome == MinedFor[response]
       IN  /\ calls' = Append(calls, [query |-> query, response |-> response,
                                      outcome |-> outcome])
           /\ IF outcome.raised
              THEN /\ g_pc' = "raised"
                   /\ UNCHANGED <<all_reddit_data, g_idx>>
              ELSE /\ all_reddit_data' = Extend(all_reddit_data, outcome.recommendations)
                   /\ g_idx' = g_idx + 1
                   /\ g_pc' = "searching"
    /\ UNCHANGED <<tracks_data, num_top_tracks, num_top_artists, top_tracks,
                   all_artists, mvars, hvars>>

\* lines 152-156
ReturnBundle ==
    /\ g_pc = "searching"
    /\ g_idx > Len(top_tracks) + Len(all_artists)
    /\ g_pc' = "done"
    /\ UNCHANGED <<tracks_data, num_top_tracks, num_top_artists, top_tracks,
                   all_artists, all_reddit_data, g_idx, calls, mvars, hvars>>

AggNext ==
    \/ SelectSeeds
    \/ \E response \in AggResponses : SearchNext(response)
    \/ ReturnBundle

SpecAgg == AggInit /\ [][AggNext]_vars

(***************************************************************************)
(* The /api/recommendations handlers and main.get_recommendations          *)
(***************************************************************************)
Requests == 1..NumRequests

\* what the client sent as playlist_url: no such key, null, "", or a url
Payloads == {"absent", "null", "empty", "url"}

\* num_recommendations default
DefaultNumRecommendations == 5

NoValue == [type |-> "none"]

Returned(value) == [status |-> "returned", value |-> value, error |-> "none"]

Raised(error) == [status |-> "raised", value |-> NoValue, error |-> error]

Pending == [status |-> "pending", value |-> NoValue, error |-> "none"]

\* main.py lines 106-147: the calls get_recommendations makes, in order
Stages ==
    <<"initialize_spotify", "initialize_reddit", "initialize_openai",
      "get_playlist_data", "get_reddit_recommendations",
      "analyze_and_recommend", "search_spotify_recommendations">>

\* the stages whose failure is followed: a client initialisation, the
\* playlist fetch and the language-model call
FailingStages == {1, 4, 6}

\* the catalogue resolves a playlist reference only if there is one
PlaylistResolves(url) == url = "url"

\* final_recommendations of a run that completes
FinalRecommendations == {<<>>, <<"song">>}

\* main.py lines 174-187: the dictionary get_recommendations returns
ResultDict(final_recommendations) ==
    [type |-> "dict",
     playlist_data |-> [name |-> "Mix"],
     tracks_data |-> <<"t1", "t2">>,
     reddit_data |-> <<"p1">>,
     final_recommendations |-> final_recommendations,
     metadata |-> [subreddit |-> "music",
                   num_requested |-> DefaultNumRecommendations,
                   num_found |-> Len(final_recommendations)]]

\* main.py lines 73-187: the possible runs of get_recommendations(url):
\* the external calls made and the outcome.  Nothing is checked before
\* line 106, so the three clients are initialised for every url.
GetRecommendations(url) ==
    {[calls |-> SubSeq(Stages, 1, k), outcome |-> Raised(Stages[k])] :
        k \in {j \in FailingStages : PlaylistResolves(url) \/ j <= 4}}
    \cup {[calls |-> Stages, outcome |-> Returned(ResultDict(f))] :
            f \in {g \in FinalRecommendations : PlaylistResolves(url)}}

\* await x: a coroutine is run to its outcome; anything else is a TypeError
Await(outcome) ==
    IF outcome.status = "returned" /\ outcome.value.type # "coroutine"
    THEN Raised("TypeError")
    ELSE outcome

\* endpoint.py lines 43-47 / fastapi_endpoint.py lines 30-31: is the
\* request rejected before the handler's body runs, and with which status
Rejection(kind, sent) ==
    IF kind = "flask"
    THEN (IF sent = "absent" THEN 400 ELSE 0)
    ELSE (IF sent \in {"absent", "null"} THEN 422 ELSE 0)

\* endpoint.py lines 84-96 / fastapi_endpoint.py lines 64-74
SuccessResponse(dict) ==
    [status |-> 200,
     success |-> TRUE,
     playlist_name |-> dict.playlist_data.name,
     recommendations |-> dict.final_recommendations,
     metadata |-> [total_tracks_analyzed |-> Len(dict.tracks_data),
                   reddit_posts_found |-> Len(dict.reddit_data),
                   recommendations_requested |-> dict.metadata.num_requested,
                   recommendations_found |-> dict.metadata.num_found]]

\* endpoint.py lines 98-102 / fastapi_endpoint.py lines 76-77
ErrorResponse(status, error) ==
    [status |-> status, success |-> FALSE, error |-> error]

\* the io.StringIO() a request creates
Buffer(r) == <<"StringIO", r>>

\* a request is inside the handler's body
InHandler(r) == h_pc[r] \in {"replace", "call", "restore", "respond"}

\* Flask serves requests on threads, which interleave between statements;
\* the FastAPI handler is a coroutine that never suspends (the call of
\* line 56 is synchronous), so it runs to its end before another starts
MayEnter(r) ==
    server = "flask" \/ \A o \in Requests \ {r} : ~InHandler(o)

HttpInit ==
    /\ server \in {"flask", "fastapi"}
    /\ payload \in [Requests -> Payloads]
    /\ h_pc = [r \in Requests |-> "received"]
    /\ sys_stdout = "console"
    /\ old_stdout = [r \in Requests |-> "unset"]
    /\ external = [r \in Requests |-> <<>>]
    /\ pipeline = [r \in Requests |-> Pending]
    /\ result = [r \in Requests |-> Pending]
    /\ http_response = [r \in Requests |-> [status |-> 0]]
    /\ MInit /\ GInit

\* endpoint.py lines 38-59; fastapi_endpoint.py lines 30-31 and 43
Validate(r) ==
    /\ h_pc[r] = "received"
    /\ IF Rejection(server, payload[r]) # 0
       THEN /\ http_response' =
                  [http_response EXCEPT ![r] =
                      ErrorResponse(Rejection(server, payload[r]),
                                    "playlist_url is required")]
            /\ h_pc' = [h_pc EXCEPT ![r] = "done"]
       ELSE /\ h_pc' = [h_pc EXCEPT ![r] = "save"]
            /\ UNCHANGED http_response
    /\ UNCHANGED <<server, payload, sys_stdout, old_stdout, external,
                   pipeline, result, mvars, gvars>>

\* endpoint.py line 62; fastapi_endpoint.py line 51
SaveStdout(r) ==
    /\ h_pc[r] = "save"
    /\ MayEnter(r)
    /\ old_stdout' = [old_stdout EXCEPT ![r] = sys_stdout]
    /\ h_pc' = [h_pc EXCEPT ![r] = "replace"]
    /\ UNCHANGED <<server, payload, sys_stdout, external, pipeline, result,
                   http_response, mvars, gvars>>

\* endpoint.py line 63; fastapi_endpoint.py line 52
ReplaceStdout(r) ==
    /\ h_pc[r] = "replace"
    /\ sys_stdout' = Buffer(r)
    /\ h_pc' = [h_pc EXCEPT ![r] = "call"]
    /\ UNCHANGED <<server, payload, old_stdout, external, pipeline, result,
                   http_response, mvars, gvars>>

\* endpoint.py lines 65-78: result = get_recommendations(...);
\* fastapi_endpoint.py lines 54-58: result = await get_recommendations(...)
CallPipeline(r) ==
    /\ h_pc[r] = "call"
    /\ \E run \in GetRecommendations(payload[r]) :
          /\ external' = [external EXCEPT ![r] = run.calls]
          /\ pipeline' = [pipeline EXCEPT ![r] = run.outcome]
          /\ result' = [result EXCEPT ![r] =
                           IF server = "fastapi"
                           THEN Await(run.outcome) ELSE run.outcome]
    /\ h_pc' = [h_pc EXCEPT ![r] = "restore"]
    /\ UNCHANGED <<server, payload, sys_stdout, old_stdout, http_response,
                   mvars, gvars>>

\* endpoint.py lines 79-81; fastapi_endpoint.py lines 59-61
RestoreStdout(r) ==
    /\ h_pc[r] = "restore"
    /\ sys_stdout' = old_stdout[r]
    /\ h_pc' = [h_pc EXCEPT ![r] = "respond"]
    /\ UNCHANGED <<server, payload, old_stdout, external, pipeline, result,
                   http_response, mvars, gvars>>

\* endpoint.py lines 83-102; fastapi_endpoint.py lines 63-77
Respond(r) ==
    /\ h_pc[r] = "respond"
    /\ http_response' =
          [http_response EXCEPT ![r] =
              IF result[r].status = "returned"
              THEN SuccessResponse(result[r].value)
              ELSE ErrorResponse(500, result[r].error)]
    /\ h_pc' = [h_pc EXCEPT ![r] = "done"]
    /\ UNCHANGED <<server, payload, sys_stdout, old_stdout, external,
                   pipeline, result, mvars, gvars>>

HttpNext ==
    \E r \in Requests :
        \/ Validate(r)
        \/ SaveStdout(r)
        \/ ReplaceStdout(r)
        \/ CallPipeline(r)
        \/ RestoreStdout(r)
        \/ Respond(r)

SpecHttp == HttpInit /\ [][HttpNext]_vars

(***************************************************************************)
(* Properties of search_reddit_for_recommendations (under SpecMine).       *)
(***************************************************************************)
MineDone == m_pc = "done"

MinedPosts == m_response.posts

\* the case-folded title and body of a post, joined by one space
FoldedText(post) == Lower(post.title \o Space \o post.selftext)

\* the posts whose folded text contains a term of the post-intent lexicon
PostsWithIntent ==
    {post \in PostPool :
        \E kw \in {KwRecommend, KwSimilar, KwIfYouLike, KwCheckOut,
                   KwYouMightLike, KwFansOf} : Contains(FoldedText(post), kw)}

\* the posts whose folded text contains "recommend" or "similar"
PostsWithStrongIntent ==
    {post \in PostPool :
        Contains(FoldedText(post), KwRecommend)
        \/ Contains(FoldedText(post), KwSimilar)}

\* per post, the positions of the comments whose folded body contains a
\* term of the comment-intent lexicon
QualifyingPositions ==
    [post \in PostPool |->
        {j \in 1..Len(post.comments) :
            \E kw \in {KwRecommend, KwSimilar, KwIfYouLike, KwCheckOut,
                       KwYouMightLike, KwTry} :
                Contains(Lower(post.comments[j].body), kw)}]

HasPostIntent(post) == post \in PostsWithIntent

HasStrongIntent(post) == post \in PostsWithStrongIntent

\* the comment fetch succeeded and one of the first limit comments qualifies
QualifiesWithin(post, limit) ==
    /\ ~post.comments_fail
    /\ \E j \in QualifyingPositions[post] : j <= limit

HasQualifyingComment(post) == QualifiesWithin(post, m_max_comments)

ResultEntries(post) ==
    {i \in 1..Len(m_result.recommendations) :
        m_result.recommendations[i].url = <<"https://reddit.com">> \o post.permalink}

InResult(post) == ResultEntries(post) # {}

CommentsFetched(post) ==
    \E i \in 1..Len(m_result.fetched) : m_result.fetched[i] = post.permalink

\* C2: a mining candidate is in the result if and only if it has at least
\* one qualifying comment or its own title/body contains "recommend" or
\* "similar"; a candidate without qualifying comments that matched only a
\* weaker term is dropped.
C2_PromotionRule ==
    MineDone =>
        \A i \in 1..Len(MinedPosts) :
            HasPostIntent(MinedPosts[i]) =>
                (InResult(MinedPosts[i])
                    <=> (HasQualifyingComment(MinedPosts[i])
                         \/ HasStrongIntent(MinedPosts[i])))

C2_Witness ==
    /\ MineDone
    /\ \E i, j \in 1..Len(MinedPosts) :
          /\ MinedPosts[i].title = TitleCheckOut
          /\ MinedPosts[i].selftext = BodyEmpty
          /\ ~HasQualifyingComment(MinedPosts[i])
          /\ ~InResult(MinedPosts[i])
          /\ MinedPosts[j].title = TitleCheckOut
          /\ HasQualifyingComment(MinedPosts[j])
          /\ InResult(MinedPosts[j])

IsIfYouLikeExample(post) ==
    /\ post.title = TitleIfYouLike
    /\ post.selftext = BodyEmpty
    /\ ~HasQualifyingComment(post)

\* C3 as stated: a post titled "If you like X, you'll love Y" (empty body)
\* with zero qualifying comments is retained in the result.
C3_IfYouLikeRetained ==
    MineDone =>
        \A i \in 1..Len(MinedPosts) :
            IsIfYouLikeExample(MinedPosts[i]) => InResult(MinedPosts[i])

\* C3 as amended: a post titled "If you like X, you'll love Y" (empty body)
\* with zero qualifying comments is a mining candidate (its comments are
\* requested) but is dropped from the result.
C3_IfYouLikeDropped ==
    MineDone =>
        \A i \in 1..Len(MinedPosts) :
            IsIfYouLikeExample(MinedPosts[i]) =>
                CommentsFetched(MinedPosts[i]) /\ ~InResult(MinedPosts[i])

C3_Witness ==
    /\ MineDone
    /\ \E i \in 1..Len(MinedPosts) :
          /\ IsIfYouLikeExample(MinedPosts[i])
          /\ MinedPosts[i].comments # <<>>
    /\ m_result.recommendations # <<>>

\* C4: a post whose case-folded title+body contains no post-intent term
\* never appears in the result and its comments are not requested, whatever
\* they contain; every post containing such a term has its comments
\* requested, once per occurrence in the search results.
C4_CandidateGate ==
    MineDone =>
        /\ \A i \in 1..Len(MinedPosts) :
              IF HasPostIntent(MinedPosts[i])
              THEN CommentsFetched(MinedPosts[i])
              ELSE ~InResult(MinedPosts[i]) /\ ~CommentsFetched(MinedPosts[i])
        /\ Len(m_result.fetched)
              = Cardinality({i \in 1..Len(MinedPosts) : HasPostIntent(MinedPosts[i])})

C4_Witness ==
    /\ MineDone
    /\ \E i, j \in 1..Len(MinedPosts) :
          /\ ~HasPostIntent(MinedPosts[i])
          /\ QualifyingPositions[MinedPosts[i]] # {}
          /\ ~InResult(MinedPosts[i])
          /\ MinedPosts[j].title = TitleFansOf
          /\ CommentsFetched(MinedPosts[j])

\* C5: when requesting the comments of a matching post raises, the error is
\* swallowed (the call does not raise and reports no search error of its
\* own), the post counts as having zero comments (it is kept only if its
\* own text contains "recommend" or "similar", and then with an empty
\* comments list), and the remaining posts of the query are still mined.
C5_CommentFailureSwallowed ==
    MineDone =>
        \A i \in 1..Len(MinedPosts) :
            (HasPostIntent(MinedPosts[i]) /\ MinedPosts[i].comments_fail) =>
                /\ ~m_result.raised
                /\ m_result.error_printed = m_response.fails
                /\ InResult(MinedPosts[i]) <=> HasStrongIntent(MinedPosts[i])
                /\ \A r \in ResultEntries(MinedPosts[i]) :
                      m_result.recommendations[r].comments = <<>>
                /\ \A j \in (i + 1)..Len(MinedPosts) :
                      HasPostIntent(MinedPosts[j]) =>
                          /\ CommentsFetched(MinedPosts[j])
                          /\ (HasQualifyingComment(MinedPosts[j])
                              \/ HasStrongIntent(MinedPosts[j]))
                                 => InResult(MinedPosts[j])

C5_Witness ==
    /\ MineDone
    /\ Len(MinedPosts) = 2
    /\ MinedPosts[1].comments_fail
    /\ HasPostIntent(MinedPosts[1])
    /\ ~HasStrongIntent(MinedPosts[1])
    /\ ~InResult(MinedPosts[1])
    /\ ~MinedPosts[2].comments_fail
    /\ HasQualifyingComment(MinedPosts[2])
    /\ InResult(MinedPosts[2])

(***************************************************************************)
(* Properties of get_reddit_recommendations (under SpecAgg).               *)
(***************************************************************************)
SeedsSelected == g_pc # "start"

AggDone == g_pc = "done"

\* the position of a track in the playlist (track names are unique)
PlaylistPosition(track) ==
    CHOOSE k \in 1..Len(tracks_data) : tracks_data[k].name = track.name

\* C1: top_tracks is sorted by popularity in descending order, keeps tracks
\* of equal popularity in their playlist order, holds playlist tracks only
\* and has at most num_top_tracks entries.
C1_TopTracksSorted ==
    SeedsSelected =>
        /\ Len(top_tracks) <= num_top_tracks
        /\ \A i \in 1..Len(top_tracks) :
              \E k \in 1..Len(tracks_data) : tracks_data[k] = top_tracks[i]
        /\ \A i, j \in 1..Len(top_tracks) :
              i < j =>
                 /\ top_tracks[i].popularity >= top_tracks[j].popularity
                 /\ top_tracks[i].popularity = top_tracks[j].popularity
                       => PlaylistPosition(top_tracks[i]) < PlaylistPosition(top_tracks[j])

C1_Witness ==
    /\ SeedsSelected
    /\ Len(top_tracks) = num_top_tracks
    /\ Len(top_tracks) >= 2
    /\ top_tracks[1] # tracks_data[1]
    /\ \E i, j \in 1..Len(top_tracks) :
          i < j /\ top_tracks[i].popularity = top_tracks[j].popularity

\* the posts of a search that the promotion rule retains, by url
RetainedUrls(posts) ==
    LET kept == SelectSeq(posts, LAMBDA p :
                    HasPostIntent(p)
                    /\ (QualifiesWithin(p, MaxComments) \/ HasStrongIntent(p)))
    IN  [i \in 1..Len(kept) |-> <<"https://reddit.com">> \o kept[i].permalink]

UrlsOf(results) == [i \in 1..Len(results) |-> results[i].url]

AllQueriesIssued ==
    /\ g_pc # "raised"
    /\ g_pc = "searching" => g_idx = Len(calls) + 1
    /\ AggDone => Len(calls) = Len(top_tracks) + Len(all_artists)

RECURSIVE ConcatResults(_)
ConcatResults(log) ==
    IF log = <<>> THEN <<>>
    ELSE Head(log).outcome.recommendations \o ConcatResults(Tail(log))

RECURSIVE SumLengths(_)
SumLengths(log) ==
    IF log = <<>> THEN 0
    ELSE Len(Head(log).outcome.recommendations) + SumLengths(Tail(log))

\* C7: all_reddit_data is the concatenation of the per-query results, first
\* for each top track in top_tracks order, then for each artist in
\* all_artists order, each query issued once; nothing is removed or merged
\* across queries, so its length is the sum of the result lengths.
C7_BundleIsConcatenation ==
    AggDone =>
        /\ Len(calls) = Len(top_tracks) + Len(all_artists)
        /\ \A k \in 1..Len(top_tracks) :
              calls[k].query
                 = <<top_tracks[k].name, top_tracks[k].artist_names, "recommend">>
        /\ \A k \in 1..Len(all_artists) :
              calls[Len(top_tracks) + k].query = <<all_artists[k], "recommend similar">>
        /\ all_reddit_data = ConcatResults(calls)
        /\ Len(all_reddit_data) = SumLengths(calls)

C7_Witness ==
    /\ AggDone
    /\ Len(top_tracks) = 2
    /\ Len(all_artists) >= 1
    /\ SumLengths(SubSeq(calls, 1, 2)) = 3
    /\ SumLengths(SubSeq(calls, 3, Len(calls))) = 2
    /\ Len(all_reddit_data) = 5
    /\ \E i, j \in 1..5 : i < j /\ all_reddit_data[i] = all_reddit_data[j]

\* the artist names that occur in the playlist
PlaylistArtists ==
    UNION {{tracks_data[i].artists[j] : j \in 1..Len(tracks_data[i].artists)} :
              i \in 1..Len(tracks_data)}

\* C8: all_artists contains no repeated name, only names of some track's
\* artists list, and min(num_top_artists, number of distinct artist names
\* of the playlist) entries.
C8_ArtistsDistinct ==
    SeedsSelected =>
        /\ \A i, j \in 1..Len(all_artists) :
              i # j => all_artists[i] # all_artists[j]
        /\ \A i \in 1..Len(all_artists) : all_artists[i] \in PlaylistArtists
        /\ Len(all_artists)
              = (IF num_top_artists < Cardinality(PlaylistArtists)
                 THEN num_top_artists ELSE Cardinality(PlaylistArtists))

C8_Witness ==
    /\ SeedsSelected
    /\ Len(tracks_data) = 3
    /\ \A i \in 1..3 : tracks_data[i].artists = <<"Blur", "Muse">>
    /\ num_top_artists = 2
    /\ all_artists = <<"Muse", "Blur">>

(***************************************************************************)
(* Properties of the HTTP handlers (under SpecHttp).                       *)
(***************************************************************************)
ReferenceMissing(r) == payload[r] \in {"absent", "null", "empty"}

IsErrorResponse(r) == http_response[r].status >= 400

\* C9: when the playlist reference is missing from a request (key absent,
\* null, or empty), no external-service client is initialised or called
\* for it, and the request ends with an error response.
C9_MissingReferenceBeforeExternalCalls ==
    \A r \in Requests :
        ReferenceMissing(r) =>
            /\ external[r] = <<>>
            /\ h_pc[r] = "done" => IsErrorResponse(r)

\* C10: in the FastAPI handler, whenever get_recommendations completes
\* without raising, the response has success=True, the playlist name, the
\* pipeline's final_recommendations and the metadata counters; an HTTP 500
\* is produced only when the pipeline itself raised.
C10_FastApiReturnsRecommendations ==
    server = "fastapi" =>
        \A r \in Requests :
            h_pc[r] = "done" =>
                /\ pipeline[r].status = "returned" =>
                      /\ http_response[r].status = 200
                      /\ http_response[r].success
                      /\ http_response[r].playlist_name
                            = pipeline[r].value.playlist_data.name
                      /\ http_response[r].recommendations
                            = pipeline[r].value.final_recommendations
                      /\ http_response[r].metadata.recommendations_found
                            = Len(pipeline[r].value.final_recommendations)
                /\ http_response[r].status = 500 => pipeline[r].status = "raised"

(***************************************************************************)
(* The comments kept for a mined post (under SpecMine).                    *)
(***************************************************************************)
\* the positions, in order, of the examined comments of a post whose folded
\* body contains a comment-intent term
KeptPositions(post) ==
    IF post.comments_fail THEN <<>>
    ELSE SelectSeq([j \in 1..Len(post.comments) |-> j],
                   LAMBDA j : j <= m_max_comments
                              /\ j \in QualifyingPositions[post])

\* the dictionary the result holds for the comment at position j
KeptComment(post, j) ==
    [body |-> post.comments[j].body,
     score |-> post.comments[j].score,
     author |-> IF post.comments[j].author = "None"
                THEN "[deleted]" ELSE post.comments[j].author]

\* C11: for each mining candidate only the first max_comments entries of
\* the flattened comment list are examined, and the comments list of the
\* post in the result is exactly the examined comments whose folded body
\* contains a comment-intent term, in their original order; a comment
\* matching none of them (also one containing only "fans of") is discarded
\* and never makes a post qualify.
C11_CommentsCappedAndFiltered ==
    MineDone =>
        \A i \in 1..Len(MinedPosts) :
            LET post == MinedPosts[i]
                kept == KeptPositions(post)
            IN  /\ \A r \in ResultEntries(post) :
                      m_result.recommendations[r].comments
                         = [k \in 1..Len(kept) |-> KeptComment(post, kept[k])]
                /\ (kept = <<>> /\ ~HasStrongIntent(post)) => ~InResult(post)

C11_Witness ==
    /\ MineDone
    /\ m_max_comments = 2
    /\ Len(MinedPosts) = 2
    /\ MinedPosts[1].comments = <<CTry, CFansOf, CRecommend>>
    /\ InResult(MinedPosts[1])
    /\ MinedPosts[2].comments = <<CFansOf>>
    /\ HasPostIntent(MinedPosts[2])
    /\ ~InResult(MinedPosts[2])

(***************************************************************************)
(* sys.stdout across requests (under SpecHttp).                            *)
(***************************************************************************)
\* C12: once every request has finished, whether its pipeline returned or
\* raised, sys.stdout is again the stream it was before any request
\* started, for every interleaving of overlapping requests.
C12_StdoutRestored ==
    (\A r \in Requests : h_pc[r] = "done") => sys_stdout = "console"

====
